---- MODULE Spec2Model ----
(***************************************************************************)
(* Model of the two programs of the repository:                            *)
(*   lab/src/main.rs    - parse_command, parse_args and the summation main *)
(*   src/guess_game.rs  - the number guessing loop                         *)
(* Text is a sequence of one-character strings; an output line is the      *)
(* concatenation of its literal fragments and the interpolated text.       *)
(***************************************************************************)
EXTENDS Integers, Sequences, FiniteSets, TLC

VARIABLES
    args, overflow_checks, pc, parsed, numbers, total, stdout, stderr, exit_code,
    raw, cmd_pc, cmd_result,
    stream, g_pc, secret_number, reads, guess_line, guess, g_out

sum_vars == <<args, overflow_checks, pc, parsed, numbers, total, stdout, stderr, exit_code>>
cmd_vars == <<raw, cmd_pc, cmd_result>>
guess_vars == <<stream, g_pc, secret_number, reads, guess_line, guess, g_out>>
vars == <<sum_vars, cmd_vars, guess_vars>>

----------------------------------------------------------------------------
(* Bounds of the explored inputs *)

MaxArgs == 3
MaxRaw == 3
MaxStreamLen == 2
MaxReads == 5

----------------------------------------------------------------------------
(* Fixed-width integers *)

I32_MAX == 2147483647
I32_MIN == (-2147483647) - 1
LIMB == 65536

Digits == <<"0", "1", "2", "3", "4", "5", "6", "7", "8", "9">>

IsDigit(c) == \E i \in 1..10 : Digits[i] = c

\* char::to_digit(10)
to_digit(c) == (CHOOSE i \in 1..10 : Digits[i] = c) - 1

ParseOk(v) == [ok |-> TRUE, val |-> v, err |-> "none"]
ParseErr(e) == [ok |-> FALSE, val |-> 0, err |-> e]

\* i32::checked_mul(r, 10): None when r * 10 leaves the i32 range
i32_mul10_overflows(r) == r > I32_MAX \div 10 \/ r < -(I32_MAX \div 10)

\* i32::checked_add(r, d) for a digit d
i32_add_overflows(r, d) == r > I32_MAX - d

\* i32::checked_sub(r, d) for a digit d
i32_sub_overflows(r, d) == r < I32_MIN + d

RECURSIVE i32_digits(_, _, _, _)
\* the digit loop of <i32 as FromStr>::from_str: result = result * 10 +/- digit, checked
i32_digits(s, i, is_positive, result) ==
    IF i > Len(s) THEN ParseOk(result)
    ELSE IF ~IsDigit(s[i]) THEN ParseErr("InvalidDigit")
    ELSE IF i32_mul10_overflows(result)
         THEN ParseErr(IF is_positive THEN "PosOverflow" ELSE "NegOverflow")
    ELSE IF is_positive
         THEN IF i32_add_overflows(result * 10, to_digit(s[i]))
              THEN ParseErr("PosOverflow")
              ELSE i32_digits(s, i + 1, is_positive, result * 10 + to_digit(s[i]))
         ELSE IF i32_sub_overflows(result * 10, to_digit(s[i]))
              THEN ParseErr("NegOverflow")
              ELSE i32_digits(s, i + 1, is_positive, result * 10 - to_digit(s[i]))

\* str::parse::<i32>(): optional sign, at least one digit, no trimming
parse_i32(s) ==
    IF Len(s) = 0 THEN ParseErr("Empty")
    ELSE IF s[1] \in {"+", "-"} /\ Len(s) = 1 THEN ParseErr("InvalidDigit")
    ELSE IF s[1] = "+" THEN i32_digits(s, 2, TRUE, 0)
    ELSE IF s[1] = "-" THEN i32_digits(s, 2, FALSE, 0)
    ELSE i32_digits(s, 1, TRUE, 0)

RECURSIVE fmt_abs(_)
\* decimal digits of a natural number, most significant first
fmt_abs(n) == IF n < 10 THEN <<Digits[n + 1]>> ELSE fmt_abs(n \div 10) \o <<Digits[(n % 10) + 1]>>

\* Display for i32 ("{total}"): "-" and the magnitude for a negative value
fmt_i32(n) ==
    IF n >= 0 THEN fmt_abs(n)
    ELSE LET m == -(n + 1)
             q == (m \div 10) + (IF m % 10 = 9 THEN 1 ELSE 0)
             d == ((m % 10) + 1) % 10
         IN <<"-">> \o (IF q = 0 THEN <<>> ELSE fmt_abs(q)) \o <<Digits[d + 1]>>

----------------------------------------------------------------------------
(* lab/src/main.rs: parse_args *)

ArgsOk(nums) == [ok |-> TRUE, numbers |-> nums, message |-> <<>>]
ArgsErr(msg) == [ok |-> FALSE, numbers |-> <<>>, message |-> msg]

\* format!("Could not parse '{arg}' as an integer")
could_not_parse(arg) == <<"Could not parse '">> \o arg \o <<"' as an integer">>

RECURSIVE parse_args_loop(_, _, _)

\* variant: a bad token is skipped (continue) instead of ending the function
parse_args_loop_skip(a, i, nums) ==
    IF i > Len(a) THEN ArgsOk(nums)
    ELSE IF parse_i32(a[i]).ok
         THEN parse_args_loop(a, i + 1, Append(nums, parse_i32(a[i]).val))
         ELSE parse_args_loop(a, i + 1, nums)

\* the for loop of parse_args: push on Ok, return Err at the first bad token
parse_args_loop(a, i, nums) ==
    IF i > Len(a) THEN ArgsOk(nums)
    ELSE IF parse_i32(a[i]).ok
         THEN parse_args_loop(a, i + 1, Append(nums, parse_i32(a[i]).val))
         ELSE ArgsErr(could_not_parse(a[i]))

\* variant: the loop starts one token late
parse_args_late(a) == parse_args_loop(a, 2, <<>>)

parse_args(a) == parse_args_loop(a, 1, <<>>)

----------------------------------------------------------------------------
(* lab/src/main.rs: main *)

\* variant: + clamps at the ends of the range instead of wrapping
saturating_add(a, b) ==
    IF b > 0 /\ a > I32_MAX - b THEN I32_MAX
    ELSE IF b < 0 /\ a < I32_MIN - b THEN I32_MIN
    ELSE a + b

\* a + b on i32 in two's complement, wrapped into the i32 range
wrapping_add(a, b) ==
    IF b > 0 /\ a > I32_MAX - b THEN (a + I32_MIN) + (b + I32_MIN)
    ELSE IF b < 0 /\ a < I32_MIN - b THEN (a - I32_MIN) + (b - I32_MIN)
    ELSE a + b

add_overflows(a, b) == (b > 0 /\ a > I32_MAX - b) \/ (b < 0 /\ a < I32_MIN - b)

SumOk(v) == [panicked |-> FALSE, val |-> v]
SumPanic == [panicked |-> TRUE, val |-> 0]

RECURSIVE sum_fold(_, _, _, _)
\* Iterator::sum::<i32>: a left fold with +, starting from 0; an overflowing +
\* panics when overflow checks are compiled in and wraps otherwise
sum_fold(nums, i, acc, checks) ==
    IF i > Len(nums) THEN SumOk(acc)
    ELSE IF checks /\ add_overflows(acc, nums[i]) THEN SumPanic
    ELSE sum_fold(nums, i + 1, wrapping_add(acc, nums[i]), checks)

iter_sum(nums, checks) == sum_fold(nums, 1, 0, checks)

NoExit == -1
PanicExit == 101
PanicLine == <<"thread 'main' panicked: attempt to add with overflow">>

T10 == <<"1", "0">>
Tm3 == <<"-", "3">>
Tnope == <<"n", "o", "p", "e">>
Tmax == <<"2", "1", "4", "7", "4", "8", "3", "6", "4", "7">>
Tmin == <<"-", "2", "1", "4", "7", "4", "8", "3", "6", "4", "8">>
Tover == <<"2", "1", "4", "7", "4", "8", "3", "6", "4", "8">>
Tplus07 == <<"+", "0", "7">>
Tempty == <<>>
Tpad == <<" ", "7">>
Tdash == <<"-">>

Tokens == {T10, Tm3, Tnope, Tmax, Tmin, Tover, Tplus07, Tempty, Tpad, Tdash}

SeqsUpTo(S, n) == UNION {[1..k -> S] : k \in 0..n}

SumIdle ==
    /\ args = <<>> /\ overflow_checks = FALSE /\ pc = "off"
    /\ parsed = ArgsOk(<<>>) /\ numbers = <<>> /\ total = 0
    /\ stdout = <<>> /\ stderr = <<>> /\ exit_code = NoExit

\* env::args().skip(1).collect()
SumInit ==
    /\ args \in SeqsUpTo(Tokens, MaxArgs)
    /\ overflow_checks \in BOOLEAN
    /\ pc = "parse"
    /\ parsed = ArgsOk(<<>>) /\ numbers = <<>> /\ total = 0
    /\ stdout = <<>> /\ stderr = <<>> /\ exit_code = NoExit

\* match parse_args(&args)
MainParse ==
    /\ pc = "parse"
    /\ parsed' = parse_args(args)
    /\ pc' = "match"
    /\ UNCHANGED <<args, overflow_checks, numbers, total, stdout, stderr, exit_code>>

\* variant: the error is reported but the process does not exit
MainErr_no_exit ==
    /\ pc = "match" /\ ~parsed.ok
    /\ stderr' = Append(stderr, <<"Error: ">> \o parsed.message)
    /\ numbers' = parsed.numbers
    /\ pc' = "sum"
    /\ UNCHANGED <<args, overflow_checks, parsed, total, stdout, exit_code>>

\* Err(message) => { eprintln!("Error: {message}"); std::process::exit(1); }
MainErr ==
    /\ pc = "match" /\ ~parsed.ok
    /\ stderr' = Append(stderr, <<"Error: ">> \o parsed.message)
    /\ exit_code' = 1
    /\ pc' = "exited"
    /\ UNCHANGED <<args, overflow_checks, parsed, numbers, total, stdout>>

\* Ok(nums) => nums
MainOk ==
    /\ pc = "match" /\ parsed.ok
    /\ numbers' = parsed.numbers
    /\ pc' = "sum"
    /\ UNCHANGED <<args, overflow_checks, parsed, total, stdout, stderr, exit_code>>

\* let total: i32 = numbers.iter().sum();
MainSum ==
    /\ pc = "sum" /\ ~iter_sum(numbers, overflow_checks).panicked
    /\ total' = iter_sum(numbers, overflow_checks).val
    /\ pc' = "print"
    /\ UNCHANGED <<args, overflow_checks, parsed, numbers, stdout, stderr, exit_code>>

\* the same statement when + overflows under overflow checks: the thread panics
MainSumPanic ==
    /\ pc = "sum" /\ iter_sum(numbers, overflow_checks).panicked
    /\ stderr' = Append(stderr, PanicLine)
    /\ exit_code' = PanicExit
    /\ pc' = "exited"
    /\ UNCHANGED <<args, overflow_checks, parsed, numbers, total, stdout>>

\* println!("Total: {total}"); and main returns
MainPrint ==
    /\ pc = "print"
    /\ stdout' = Append(stdout, <<"Total: ">> \o fmt_i32(total))
    /\ exit_code' = 0
    /\ pc' = "exited"
    /\ UNCHANGED <<args, overflow_checks, parsed, numbers, total, stderr>>

----------------------------------------------------------------------------
(* lab/src/main.rs: parse_command *)

Upper == <<"A", "B", "C", "D", "E", "F", "G", "H", "I", "J", "K", "L", "M",
           "N", "O", "P", "Q", "R", "S", "T", "U", "V", "W", "X", "Y", "Z">>
Lower == <<"a", "b", "c", "d", "e", "f", "g", "h", "i", "j", "k", "l", "m",
           "n", "o", "p", "q", "r", "s", "t", "u", "v", "w", "x", "y", "z">>

lower_char(c) ==
    IF \E i \in 1..26 : Upper[i] = c THEN Lower[CHOOSE i \in 1..26 : Upper[i] = c] ELSE c

\* variant: the verb is compared as typed
to_lowercase_missing(s) == s

\* String::to_lowercase
to_lowercase(s) == [i \in 1..Len(s) |-> lower_char(s[i])]

CmdOk(variant, nums) == [ok |-> TRUE, variant |-> variant, numbers |-> nums, message |-> <<>>]
CmdErr(msg) == [ok |-> FALSE, variant |-> "none", numbers |-> <<>>, message |-> msg]

\* format!("bad number: {piece}")
bad_number(piece) == <<"bad number: ">> \o piece

\* format!("unknown command: {other}"), other being the matched (lower-cased) verb
unknown_command(other) == <<"unknown command: ">> \o other

RECURSIVE collect_numbers(_, _, _)

\* variant: filter_map in place of map, so a bad piece is dropped
collect_numbers_filter(r, i, nums) ==
    IF i > Len(r) THEN CmdOk("Add", nums)
    ELSE IF parse_i32(r[i]).ok
         THEN collect_numbers(r, i + 1, Append(nums, parse_i32(r[i]).val))
         ELSE collect_numbers(r, i + 1, nums)

\* raw[1..].iter().map(parse or "bad number").collect::<Result<Vec<_>, _>>()?
collect_numbers(r, i, nums) ==
    IF i > Len(r) THEN CmdOk("Add", nums)
    ELSE IF parse_i32(r[i]).ok
         THEN collect_numbers(r, i + 1, Append(nums, parse_i32(r[i]).val))
         ELSE CmdErr(bad_number(r[i]))

parse_command(r) ==
    IF Len(r) = 0 THEN CmdErr(<<"no input provided">>)
    ELSE LET verb == to_lowercase(r[1]) IN
         IF verb = <<"a", "d", "d">>
         THEN IF Len(r) = 1 THEN CmdErr(<<"add needs at least one number">>)
              ELSE collect_numbers(r, 2, <<>>)
         ELSE IF verb = <<"l", "i", "s", "t">> THEN CmdOk("List", <<>>)
         ELSE IF verb = <<"q", "u", "i", "t">> THEN CmdOk("Quit", <<>>)
         ELSE CmdErr(unknown_command(verb))

Vadd == <<"a", "d", "d">>
VADD == <<"A", "D", "D">>
VAdd == <<"A", "d", "d">>
Vlist == <<"l", "i", "s", "t">>
VLIST == <<"L", "I", "S", "T">>
Vquit == <<"q", "u", "i", "t">>
VQuit == <<"Q", "u", "i", "t">>
VFoo == <<"F", "o", "o">>
Tx == <<"x">>

CmdTokens == {Vadd, VADD, VAdd, Vlist, VLIST, Vquit, VQuit, VFoo, Tx, T10, Tm3, Tover, Tempty}

CmdIdle == raw = <<>> /\ cmd_pc = "off" /\ cmd_result = CmdErr(<<>>)

CmdInit ==
    /\ raw \in SeqsUpTo(CmdTokens, MaxRaw)
    /\ cmd_pc = "call"
    /\ cmd_result = CmdErr(<<>>)

\* a caller applies parse_command to its tokens
Dispatch ==
    /\ cmd_pc = "call"
    /\ cmd_result' = parse_command(raw)
    /\ cmd_pc' = "returned"
    /\ UNCHANGED raw

----------------------------------------------------------------------------
(* src/guess_game.rs *)

\* a u32 as two 16-bit limbs: value = hi * LIMB + lo
U32(h, l) == [hi |-> h, lo |-> l]

U32Ok(v) == [ok |-> TRUE, val |-> v, err |-> "none"]
U32Err(e) == [ok |-> FALSE, val |-> U32(0, 0), err |-> e]

\* result * 10 + d before reduction to 32 bits: the high limb may exceed LIMB - 1
u32_push(result, d) ==
    U32(result.hi * 10 + ((result.lo * 10 + d) \div LIMB), (result.lo * 10 + d) % LIMB)

RECURSIVE u32_digits(_, _, _)
\* the digit loop of <u32 as FromStr>::from_str: result = result * 10 + digit, checked
u32_digits(s, i, result) ==
    IF i > Len(s) THEN U32Ok(result)
    ELSE IF ~IsDigit(s[i]) THEN U32Err("InvalidDigit")
    ELSE IF u32_push(result, to_digit(s[i])).hi >= LIMB THEN U32Err("PosOverflow")
    ELSE u32_digits(s, i + 1, u32_push(result, to_digit(s[i])))

\* str::parse::<u32>(): "+" is accepted, "-" is not a digit of an unsigned type
parse_u32(s) ==
    IF Len(s) = 0 THEN U32Err("Empty")
    ELSE IF s[1] \in {"+", "-"} /\ Len(s) = 1 THEN U32Err("InvalidDigit")
    ELSE IF s[1] = "+" THEN u32_digits(s, 2, U32(0, 0))
    ELSE u32_digits(s, 1, U32(0, 0))

RECURSIVE fmt_u32(_)
\* Display for u32 ("{}"): decimal digits by repeated division by ten
fmt_u32(v) ==
    IF v.hi = 0 /\ v.lo < 10 THEN <<Digits[v.lo + 1]>>
    ELSE LET r == (v.hi % 10) * LIMB + v.lo
         IN fmt_u32(U32(v.hi \div 10, r \div 10)) \o <<Digits[(r % 10) + 1]>>

\* variant: the operands of the comparison are exchanged
cmp_exchanged(a, b) ==
    IF b.hi < a.hi \/ (b.hi = a.hi /\ b.lo < a.lo) THEN "Less"
    ELSE IF b.hi > a.hi \/ (b.hi = a.hi /\ b.lo > a.lo) THEN "Greater"
    ELSE "Equal"

\* u32::cmp
cmp(a, b) ==
    IF a.hi < b.hi \/ (a.hi = b.hi /\ a.lo < b.lo) THEN "Less"
    ELSE IF a.hi > b.hi \/ (a.hi = b.hi /\ a.lo > b.lo) THEN "Greater"
    ELSE "Equal"

WhiteSpace == {" ", "\t", "\n", "\r"}

RECURSIVE trim_start(_)
trim_start(s) == IF Len(s) > 0 /\ s[1] \in WhiteSpace THEN trim_start(Tail(s)) ELSE s

RECURSIVE trim_end(_)
trim_end(s) ==
    IF Len(s) > 0 /\ s[Len(s)] \in WhiteSpace THEN trim_end(SubSeq(s, 1, Len(s) - 1)) ELSE s

\* str::trim
trim(s) == trim_end(trim_start(s))

SecretLow == 1
SecretHigh == 101

L10 == <<"1", "0", "\n">>
Labc == <<"a", "b", "c", "\n">>
L90 == <<"9", "0", "\n">>
L42 == <<"4", "2", "\n">>
Lneg5 == <<"-", "5", "\n">>
Lblank == <<"\n">>
Lbig == <<"3", "0", "0", "0", "0", "0", "0", "0", "0", "0", "\n">>
Lover == <<"4", "2", "9", "4", "9", "6", "7", "2", "9", "6", "\n">>
Lpad == <<" ", "+", "4", "2", "\r", "\n">>

Lines == {Labc, L42, Lneg5, Lblank, Lbig, Lover, Lpad}

ExampleStream == <<L10, Labc, L90, L42>>

GuessIdle ==
    /\ stream = <<>> /\ g_pc = "off" /\ secret_number = U32(0, 0) /\ reads = 0
    /\ guess_line = <<>> /\ guess = U32(0, 0) /\ g_out = <<>>

\* the lines standard input will deliver; after them every read is at end of input
GuessInit ==
    /\ stream \in SeqsUpTo(Lines, MaxStreamLen) \cup {ExampleStream}
    /\ g_pc = "start"
    /\ secret_number = U32(0, 0) /\ reads = 0
    /\ guess_line = <<>> /\ guess = U32(0, 0) /\ g_out = <<>>

\* the two println! and rand::thread_rng().gen_range(1..101)
Start ==
    /\ g_pc = "start"
    /\ g_out' = g_out \o << <<"guess the number!">>, <<"guess the number!">> >>
    /\ \E s \in SecretLow..(SecretHigh - 1) : secret_number' = U32(0, s)
    /\ g_pc' = "prompt"
    /\ UNCHANGED <<stream, reads, guess_line, guess>>

\* loop { println!("input your number."); let mut guess = String::new();
Prompt ==
    /\ g_pc = "prompt" /\ reads < MaxReads
    /\ g_out' = Append(g_out, <<"input your number.">>)
    /\ guess_line' = <<>>
    /\ g_pc' = "read"
    /\ UNCHANGED <<stream, secret_number, reads, guess>>

\* io::stdin().read_line(&mut guess): the next line with its terminator, or
\* nothing at end of input
ReadLine ==
    /\ g_pc = "read"
    /\ guess_line' = guess_line \o (IF reads < Len(stream) THEN stream[reads + 1] ELSE <<>>)
    /\ reads' = reads + 1
    /\ g_pc' = "parse"
    /\ UNCHANGED <<stream, secret_number, guess, g_out>>

\* guess.trim().parse() is Ok(num); println!("You guess: {}", guess);
GuessParsed ==
    /\ g_pc = "parse" /\ parse_u32(trim(guess_line)).ok
    /\ LET num == parse_u32(trim(guess_line)).val
       IN guess' = num /\ g_out' = Append(g_out, <<"You guess: ">> \o fmt_u32(num))
    /\ g_pc' = "compare"
    /\ UNCHANGED <<stream, secret_number, reads, guess_line>>

\* variant: the rejected line is reported before the loop continues
GuessRejected_reports ==
    /\ g_pc = "parse" /\ ~parse_u32(trim(guess_line)).ok
    /\ g_out' = Append(g_out, <<"Please type a number!">>)
    /\ g_pc' = "prompt"
    /\ UNCHANGED <<stream, secret_number, reads, guess_line, guess>>

\* Err(_) => continue
GuessRejected ==
    /\ g_pc = "parse" /\ ~parse_u32(trim(guess_line)).ok
    /\ g_pc' = "prompt"
    /\ UNCHANGED <<stream, secret_number, reads, guess_line, guess, g_out>>

\* Ordering::Less => println!("Too small")
TooSmall ==
    /\ g_pc = "compare" /\ cmp(guess, secret_number) = "Less"
    /\ g_out' = Append(g_out, <<"Too small">>)
    /\ g_pc' = "prompt"
    /\ UNCHANGED <<stream, secret_number, reads, guess_line, guess>>

\* Ordering::Greater => println!("Too big")
TooBig ==
    /\ g_pc = "compare" /\ cmp(guess, secret_number) = "Greater"
    /\ g_out' = Append(g_out, <<"Too big">>)
    /\ g_pc' = "prompt"
    /\ UNCHANGED <<stream, secret_number, reads, guess_line, guess>>

\* variant: the break is missing
YouWin_no_break ==
    /\ g_pc = "compare" /\ cmp(guess, secret_number) = "Equal"
    /\ g_out' = Append(g_out, <<"You win!">>)
    /\ g_pc' = "prompt"
    /\ UNCHANGED <<stream, secret_number, reads, guess_line, guess>>

\* Ordering::Equal => { println!("You win!"); break; }
YouWin ==
    /\ g_pc = "compare" /\ cmp(guess, secret_number) = "Equal"
    /\ g_out' = Append(g_out, <<"You win!">>)
    /\ g_pc' = "won"
    /\ UNCHANGED <<stream, secret_number, reads, guess_line, guess>>

----------------------------------------------------------------------------
(* Specifications: one per program, the other programs' variables idle *)

SumNext ==
    \/ MainParse /\ UNCHANGED <<cmd_vars, guess_vars>>
    \/ MainErr /\ UNCHANGED <<cmd_vars, guess_vars>>
    \/ MainOk /\ UNCHANGED <<cmd_vars, guess_vars>>
    \/ MainSum /\ UNCHANGED <<cmd_vars, guess_vars>>
    \/ MainSumPanic /\ UNCHANGED <<cmd_vars, guess_vars>>
    \/ MainPrint /\ UNCHANGED <<cmd_vars, guess_vars>>

CmdNext == Dispatch /\ UNCHANGED <<sum_vars, guess_vars>>

GuessNext ==
    \/ Start /\ UNCHANGED <<sum_vars, cmd_vars>>
    \/ Prompt /\ UNCHANGED <<sum_vars, cmd_vars>>
    \/ ReadLine /\ UNCHANGED <<sum_vars, cmd_vars>>
    \/ GuessParsed /\ UNCHANGED <<sum_vars, cmd_vars>>
    \/ GuessRejected /\ UNCHANGED <<sum_vars, cmd_vars>>
    \/ TooSmall /\ UNCHANGED <<sum_vars, cmd_vars>>
    \/ TooBig /\ UNCHANGED <<sum_vars, cmd_vars>>
    \/ YouWin /\ UNCHANGED <<sum_vars, cmd_vars>>

InitSum == SumInit /\ CmdIdle /\ GuessIdle
InitCmd == SumIdle /\ CmdInit /\ GuessIdle
InitGuess == SumIdle /\ CmdIdle /\ GuessInit

SpecSum == InitSum /\ [][SumNext]_vars
SpecCmd == InitCmd /\ [][CmdNext]_vars
SpecGuess == InitGuess /\ [][GuessNext]_vars

----------------------------------------------------------------------------
(* What a token denotes, stated on the text alone *)

Unsigned(s) == IF Len(s) > 0 /\ s[1] \in {"+", "-"} THEN Tail(s) ELSE s

RECURSIVE StripZeros(_)
StripZeros(d) == IF Len(d) > 1 /\ d[1] = "0" THEN StripZeros(Tail(d)) ELSE d

RECURSIVE DigitsLeq(_, _, _)
\* d <= e for digit strings of equal length, from position i on
DigitsLeq(d, e, i) ==
    IF i > Len(d) THEN TRUE
    ELSE IF to_digit(d[i]) < to_digit(e[i]) THEN TRUE
    ELSE IF to_digit(d[i]) > to_digit(e[i]) THEN FALSE
    ELSE DigitsLeq(d, e, i + 1)

MagnitudeFits(d, limit) ==
    LET m == StripZeros(d) IN Len(m) < Len(limit) \/ (Len(m) = Len(limit) /\ DigitsLeq(m, limit, 1))

\* a base-10 literal of a signed 32-bit integer: [+-]?[0-9]+ within -2^31 .. 2^31 - 1
IsI32Literal(s) ==
    LET d == Unsigned(s) IN
    /\ Len(d) > 0
    /\ \A i \in 1..Len(d) : IsDigit(d[i])
    /\ IF s[1] = "-" THEN MagnitudeFits(d, Tail(Tmin)) ELSE MagnitudeFits(d, Tmax)

RECURSIVE SignedHorner(_, _, _)
SignedHorner(d, sign, acc) ==
    IF Len(d) = 0 THEN acc ELSE SignedHorner(Tail(d), sign, acc * 10 + sign * to_digit(d[1]))

\* the integer an i32 literal denotes
LiteralValue(s) == SignedHorner(StripZeros(Unsigned(s)), IF s[1] = "-" THEN -1 ELSE 1, 0)

AllLiterals(a) == \A i \in 1..Len(a) : IsI32Literal(a[i])

FirstInvalid(a) == CHOOSE i \in 1..Len(a) : ~IsI32Literal(a[i]) /\ \A j \in 1..(i - 1) : IsI32Literal(a[j])

Values(a) == [i \in 1..Len(a) |-> LiteralValue(a[i])]

\* exact integers beyond the machine width: value = hi * LIMB + lo, 0 <= lo < LIMB
ToLimbs(n) == [hi |-> n \div LIMB, lo |-> n % LIMB]

RECURSIVE HiSum(_)
HiSum(v) == IF Len(v) = 0 THEN 0 ELSE (v[1] \div LIMB) + HiSum(Tail(v))

RECURSIVE LoSum(_)
LoSum(v) == IF Len(v) = 0 THEN 0 ELSE (v[1] % LIMB) + LoSum(Tail(v))

\* the arithmetic sum of a sequence of integers
ArithSum(v) == [hi |-> HiSum(v) + (LoSum(v) \div LIMB), lo |-> LoSum(v) % LIMB]

InI32Range(L) == L.hi >= -(LIMB \div 2) /\ L.hi < LIMB \div 2

\* the representative of L modulo 2^32 in the i32 range
WrapI32(L) == [hi |-> ((L.hi + (LIMB \div 2)) % LIMB) - (LIMB \div 2), lo |-> L.lo]

FromLimbs(L) == L.hi * LIMB + L.lo

PrefixSumsFit(v) == \A k \in 1..Len(v) : InI32Range(ArithSum(SubSeq(v, 1, k)))

----------------------------------------------------------------------------
(* Claims about parse_args and the summation tool, under SpecSum *)

\* C1: parse_args succeeds on every sequence of valid i32 literals, the empty one
\* included, and returns one integer per token, in order, each the value of its token
C1_ParseArgsPositional ==
    (pc # "parse" /\ pc # "off" /\ AllLiterals(args)) =>
        /\ parsed.ok
        /\ Len(parsed.numbers) = Len(args)
        /\ \A i \in 1..Len(args) : parsed.numbers[i] = LiteralValue(args[i])
        /\ (args = <<>> => parsed = ArgsOk(<<>>))
        /\ (args = <<T10, Tm3>> => parsed.numbers = <<10, -3>>)

C1_Witness ==
    /\ pc = "match" /\ Len(args) = 3 /\ AllLiterals(args)
    /\ args[1] = Tmin /\ args[2] = Tplus07 /\ args[3] = Tmax
    /\ parsed.numbers = <<I32_MIN, 7, I32_MAX>>

\* C2: with an invalid token anywhere, parse_args returns an error and no integers,
\* and the message quotes the lowest-index invalid token
C2_AllOrNothing ==
    (pc # "parse" /\ pc # "off" /\ ~AllLiterals(args)) =>
        /\ ~parsed.ok
        /\ parsed.numbers = <<>>
        /\ parsed.message =
               <<"Could not parse '">> \o args[FirstInvalid(args)] \o <<"' as an integer">>

C2_Witness ==
    /\ pc = "match" /\ args = <<T10, Tover, Tnope>>
    /\ parsed.message = <<"Could not parse '">> \o Tover \o <<"' as an integer">>

TotalLine(n) == <<"Total: ">> \o fmt_i32(n)

ErrorLine(tok) == <<"Error: ", "Could not parse '">> \o tok \o <<"' as an integer">>

SuccessOutcome(n) ==
    stdout = <<TotalLine(n)>> /\ stderr = <<>> /\ exit_code = 0

ErrorOutcome ==
    /\ stdout = <<>> /\ exit_code = 1
    /\ stderr = <<ErrorLine(args[FirstInvalid(args)])>>

PanicOutcome ==
    stdout = <<>> /\ stderr = <<PanicLine>> /\ exit_code = PanicExit

\* C3 as stated: a finished run is the success outcome when every token parses and
\* the error outcome otherwise
C3_TwoOutcomes ==
    pc = "exited" =>
        IF AllLiterals(args)
        THEN SuccessOutcome(FromLimbs(WrapI32(ArithSum(Values(args)))))
        ELSE ErrorOutcome

\* C3 amended: a finished run is one of three outcomes; the third is the panic of
\* the checked + when a prefix sum leaves the i32 range. Nothing is written and no
\* exit code is set before the outcome, and an unfinished run can take a step
C3_ThreeOutcomes ==
    /\ pc = "exited" =>
          IF ~AllLiterals(args) THEN ErrorOutcome
          ELSE IF overflow_checks /\ ~PrefixSumsFit(Values(args)) THEN PanicOutcome
          ELSE SuccessOutcome(FromLimbs(WrapI32(ArithSum(Values(args)))))
    /\ pc \in {"parse", "match", "sum", "print"} =>
          /\ stdout = <<>> /\ stderr = <<>> /\ exit_code = NoExit
          /\ ENABLED SumNext
    /\ (pc = "exited" /\ args = <<T10, Tm3>>) => stdout = << <<"Total: ", "7">> >>

C3_Witness ==
    /\ pc = "exited" /\ args = <<Tmax, T10, Tm3>> /\ overflow_checks /\ PanicOutcome

\* C10 as stated: the total is the arithmetic sum of the integers the tokens denote,
\* also when that sum lies outside the i32 range
C10_TotalIsArithmeticSum ==
    (pc = "print" /\ AllLiterals(args)) => ToLimbs(total) = ArithSum(Values(args))

\* C10 amended: a computed total is the arithmetic sum reduced modulo 2^32 into the
\* i32 range, hence the arithmetic sum itself whenever every prefix sum fits; the
\* total is computed unless overflow checks are on and a prefix sum does not fit
C10_TotalWithinWidth ==
    /\ (pc = "print" /\ AllLiterals(args)) =>
          /\ ToLimbs(total) = WrapI32(ArithSum(Values(args)))
          /\ PrefixSumsFit(Values(args)) => ToLimbs(total) = ArithSum(Values(args))
          /\ ~(overflow_checks /\ ~PrefixSumsFit(Values(args)))
          /\ (args = <<>> => total = 0)
          /\ (args = <<T10, Tm3>> => total = 7)
    /\ (pc = "sum" /\ (~overflow_checks \/ PrefixSumsFit(Values(args)))) => ENABLED MainSum

C10_Witness ==
    /\ pc = "print" /\ args = <<Tmin, Tm3, Tmax>> /\ ~overflow_checks /\ total = -4
    /\ ~PrefixSumsFit(Values(args))

----------------------------------------------------------------------------
(* Claims about parse_command, under SpecCmd *)

UpperOf(c) == IF \E i \in 1..26 : Lower[i] = c THEN Upper[CHOOSE i \in 1..26 : Lower[i] = c] ELSE c

\* s is the lower-case word w in some letter case
IsVerb(s, w) == Len(s) = Len(w) /\ \A i \in 1..Len(w) : s[i] = w[i] \/ s[i] = UpperOf(w[i])

\* C7: the empty sequence fails with "no input provided" (parse_args succeeds on it);
\* add alone, in any case, fails with "add needs at least one number"; list and quit,
\* in any case, succeed as List and Quit whatever follows
C7_Routing ==
    cmd_pc = "returned" =>
        /\ raw = <<>> =>
              cmd_result = CmdErr(<<"no input provided">>) /\ parse_args(raw) = ArgsOk(<<>>)
        /\ (Len(raw) = 1 /\ IsVerb(raw[1], Vadd)) =>
              cmd_result = CmdErr(<<"add needs at least one number">>)
        /\ (Len(raw) >= 1 /\ IsVerb(raw[1], Vlist)) => cmd_result = CmdOk("List", <<>>)
        /\ (Len(raw) >= 1 /\ IsVerb(raw[1], Vquit)) => cmd_result = CmdOk("Quit", <<>>)

C7_Witness ==
    cmd_pc = "returned" /\ raw = <<VQuit, Tx, Tover>> /\ cmd_result.variant = "Quit"

\* C8: add followed by tokens agrees with parse_args on those tokens: Add(v) exactly
\* when parse_args gives Ok(v), and otherwise an error "bad number: <token>" for the
\* token parse_args blames, the first invalid one of the remainder
C8_AddAgreesWithParseArgs ==
    (cmd_pc = "returned" /\ Len(raw) >= 2 /\ IsVerb(raw[1], Vadd)) =>
        LET rest == Tail(raw)
            pa == parse_args(rest)
        IN /\ cmd_result.ok <=> pa.ok
           /\ pa.ok => cmd_result = CmdOk("Add", pa.numbers)
           /\ ~pa.ok =>
                 /\ cmd_result = CmdErr(<<"bad number: ">> \o rest[FirstInvalid(rest)])
                 /\ pa.message =
                        <<"Could not parse '">> \o rest[FirstInvalid(rest)] \o <<"' as an integer">>

C8_Witness ==
    /\ cmd_pc = "returned" /\ raw = <<VADD, T10, Tover>>
    /\ cmd_result.message = <<"bad number: ">> \o Tover

\* C9 as stated: an unknown verb is echoed in the error exactly as the caller typed it
C9_EchoesOriginalCase ==
    (/\ cmd_pc = "returned" /\ Len(raw) >= 1
     /\ ~IsVerb(raw[1], Vadd) /\ ~IsVerb(raw[1], Vlist) /\ ~IsVerb(raw[1], Vquit)) =>
        cmd_result = CmdErr(<<"unknown command: ">> \o raw[1])

----------------------------------------------------------------------------
(* Claims about the guess loop, under SpecGuess *)

FirstInk(s) == CHOOSE i \in 1..Len(s) : s[i] \notin WhiteSpace /\ \A j \in 1..(i - 1) : s[j] \in WhiteSpace
LastInk(s) == CHOOSE i \in 1..Len(s) : s[i] \notin WhiteSpace /\ \A j \in (i + 1)..Len(s) : s[j] \in WhiteSpace

\* the text of a line between its first and last non-blank characters
Trimmed(s) ==
    IF \A i \in 1..Len(s) : s[i] \in WhiteSpace THEN <<>> ELSE SubSeq(s, FirstInk(s), LastInk(s))

U32MaxText == <<"4", "2", "9", "4", "9", "6", "7", "2", "9", "5">>

NoPlus(t) == IF Len(t) > 0 /\ t[1] = "+" THEN Tail(t) ELSE t

\* the line holds, between blanks, a base-10 literal of an unsigned 32-bit integer
IsGuess(line) ==
    LET d == NoPlus(Trimmed(line)) IN
    /\ Len(d) > 0
    /\ \A i \in 1..Len(d) : IsDigit(d[i])
    /\ MagnitudeFits(d, U32MaxText)

\* the canonical decimal text of the guess a line holds
GuessText(line) == StripZeros(NoPlus(Trimmed(line)))

SecretText == fmt_abs(secret_number.lo)

\* numeric order of two canonical decimal texts
TextLess(d, e) == Len(d) < Len(e) \/ (Len(d) = Len(e) /\ d # e /\ DigitsLeq(d, e, 1))

Verdict(line) ==
    IF GuessText(line) = SecretText THEN <<"You win!">>
    ELSE IF TextLess(GuessText(line), SecretText) THEN <<"Too small">>
    ELSE <<"Too big">>

Hits(line) == IsGuess(line) /\ GuessText(line) = SecretText

\* what the k-th read returns: a line of the stream, or nothing at end of input
LineAt(k) == IF k <= Len(stream) THEN stream[k] ELSE <<>>

\* C4: the loop is in Won exactly when the line read last is the first one to hold
\* the secret; Won is final; short of that the loop has a next step when it prompts,
\* reads or compares, and a line being parsed is either accepted or rejected, end of
\* input included; secret 42 with lines 10, abc, 90, 42 wins at the 4th read
C4_WinsOnFirstHit ==
    /\ g_pc = "won" =>
          /\ reads >= 1 /\ Hits(LineAt(reads))
          /\ \A k \in 1..(reads - 1) : ~Hits(LineAt(k))
          /\ g_out[Len(g_out)] = <<"You win!">>
          /\ ~ENABLED GuessNext
    /\ g_pc \in {"prompt", "read"} => \A k \in 1..reads : ~Hits(LineAt(k))
    /\ g_pc \in {"parse", "compare"} => \A k \in 1..(reads - 1) : ~Hits(LineAt(k))
    /\ (g_pc = "prompt" /\ reads < MaxReads) => ENABLED Prompt
    /\ g_pc = "read" => ENABLED ReadLine
    /\ g_pc = "parse" =>
          /\ guess_line = LineAt(reads)
          /\ parse_u32(trim(guess_line)).ok <=> IsGuess(guess_line)
    /\ g_pc = "compare" => ENABLED TooSmall \/ ENABLED TooBig \/ ENABLED YouWin
    /\ (g_pc = "prompt" /\ reads >= Len(stream)) => ~Hits(<<>>)
    /\ (secret_number = U32(0, 42) /\ stream = ExampleStream /\ g_pc \in {"prompt", "won"}) =>
          /\ reads = 4 => g_pc = "won"
          /\ reads < 4 => g_pc = "prompt"
          /\ reads <= 4
          /\ g_pc = "won" =>
                g_out = << <<"guess the number!">>, <<"guess the number!">>,
                           <<"input your number.">>, <<"You guess: ", "1", "0">>, <<"Too small">>,
                           <<"input your number.">>,
                           <<"input your number.">>, <<"You guess: ", "9", "0">>, <<"Too big">>,
                           <<"input your number.">>, <<"You guess: ", "4", "2">>, <<"You win!">> >>

C4_Witness ==
    /\ g_pc = "won" /\ secret_number = U32(0, 42) /\ stream = ExampleStream /\ reads = 4

\* C5: a line holding a guess g is answered by "You guess: g" and then by exactly one
\* verdict fixed by g and the secret alone; after Too small or Too big the loop awaits
\* input again, and the secret is as before
C5_GuessAnswered ==
    [][/\ (g_pc = "parse" /\ IsGuess(guess_line)) =>
             /\ g_out' = Append(g_out, <<"You guess: ">> \o GuessText(guess_line))
             /\ g_pc' = "compare"
             /\ secret_number' = secret_number
       /\ g_pc = "compare" =>
             /\ IsGuess(guess_line)
             /\ g_out' = Append(g_out, Verdict(guess_line))
             /\ g_pc' = (IF Verdict(guess_line) = <<"You win!">> THEN "won" ELSE "prompt")
             /\ secret_number' = secret_number
             /\ reads' = reads
      ]_vars

C5_Witness ==
    /\ g_pc = "prompt" /\ reads = 2 /\ stream = <<Lbig, Lpad>> /\ secret_number = U32(0, 41)
    /\ g_out = << <<"guess the number!">>, <<"guess the number!">>,
                  <<"input your number.">>,
                  <<"You guess: ", "3", "0", "0", "0", "0", "0", "0", "0", "0", "0">>, <<"Too big">>,
                  <<"input your number.">>, <<"You guess: ", "4", "2">>, <<"Too big">> >>

\* C6: a line that holds no unsigned integer is dropped: no output, no comparison, the
\* secret and the last guess as before, the loop awaiting input, and the next output
\* is the ordinary prompt, written before the next read
C6_BadLineDropped ==
    [][/\ (g_pc = "parse" /\ ~IsGuess(guess_line)) =>
             /\ g_out' = g_out
             /\ g_pc' = "prompt"
             /\ UNCHANGED <<secret_number, guess, reads, stream>>
       /\ g_pc = "prompt" =>
             /\ g_out' = Append(g_out, <<"input your number.">>)
             /\ g_pc' = "read"
             /\ UNCHANGED <<secret_number, guess, reads, stream>>
       /\ g_pc = "read" => g_out' = g_out /\ g_pc' = "parse" /\ reads' = reads + 1
      ]_vars

C6_Witness ==
    /\ g_pc = "read" /\ reads = 2 /\ stream = <<Lneg5, Lover>>
    /\ g_out = << <<"guess the number!">>, <<"guess the number!">>,
                  <<"input your number.">>, <<"input your number.">>, <<"input your number.">> >>

====
